---- MODULE Spec2Model ----
(***************************************************************************)
(* A model of src/make.rs: the incremental build orchestrator `Make`.      *)
(*                                                                         *)
(* Text.  A string is a sequence of pieces.  Path text is written one      *)
(* character per piece, so that the per-character operations of the code   *)
(* (is_alphanumeric, contains) see characters; a compiler or linker flag   *)
(* is one piece that starts with "-".  No piece sequence spells another,   *)
(* so two strings are equal in the program iff they are equal here.        *)
(* An Option<T> is a sequence of length 0 (None) or 1 (Some).              *)
(***************************************************************************)
EXTENDS Integers, Sequences, FiniteSets, TLC

(***************************************************************************)
(* Bounds of the model.                                                    *)
(***************************************************************************)
\* builds (process invocations) in one behaviour
MaxBuilds == 2
\* registrations (cobject + build calls) in one build
MaxUnits == 3
\* writes of source files by the environment in one behaviour
MaxTouches == 1
\* size of the worker pool that runs the compile Steps
NumWorkers == 2
\* the hash is reduced modulo HashMod (the program's hash has 128 bits)
HashMod == 32749

(***************************************************************************)
(* The state.                                                              *)
(***************************************************************************)
VARIABLES
  plan,       \* what this behaviour may run (fixed by Init)
  fs,         \* the file system: path -> modification time, of the files that exist
  clock,      \* the time of the file system
  touches,    \* writes of source files by the environment so far
  builds,     \* process invocations started so far
  pc,         \* "idle", "new", "reg", "compile", "link", "done", "exited", "panicked"
  inv,        \* the invocation being run
  pending,    \* Make::new: the project's cobjects not yet registered
  artifact,   \* Make.artifact
  cc,         \* Make.cc
  cflags,     \* Make.cflags
  lflags,     \* Make.lflags
  steps,      \* Make.steps
  stepState,  \* per Step: "queued", "running", "ok", "panicked"
  spawns,     \* per Step: how many compiler subprocesses were started for it
  spawnedCC,  \* the executables the compiler subprocesses were started from
  returned,   \* per Step: the statuses its compiler subprocesses returned, in order
  pb,         \* the progress bar: [total, count]
  linkArgv,   \* the arguments of the linker subprocess: None until it is spawned
  linker,     \* the linker subprocess: [state, cc, returned]
  exitCode,   \* the exit code of the process: None while it runs or returned from link
  lflags0,    \* the link flags Make::new gave Make, before any registration
  regs,       \* the registrations of this build, in order
  lastDirty,  \* the last is_dirty call: what it read and what it answered
  prev,       \* the previous build: how it ended and what it registered
  pkgQueries, \* the outcomes of the pkg-config queries Make::new ran, in order
  touched     \* the files written by the environment since the previous build ended

(***************************************************************************)
(* Sequence helpers.                                                       *)
(***************************************************************************)
None == <<>>

Some(x) == <<x>>

RECURSIVE Reverse(_)
\* the sequence backwards
Reverse(s) == IF s = <<>> THEN <<>> ELSE Reverse(Tail(s)) \o <<Head(s)>>

RECURSIVE Perms(_)
\* every enumeration, without repetition, of a finite set
Perms(S) ==
  IF S = {} THEN {<<>>}
  ELSE UNION {{<<x>> \o p : p \in Perms(S \ {x})} : x \in S}

(***************************************************************************)
(* Characters.                                                             *)
(***************************************************************************)
Letters ==
  {"a", "b", "c", "d", "e", "f", "g", "h", "i", "j", "k", "l", "m", "n",
   "o", "p", "q", "r", "s", "t", "u", "v", "w", "x", "y", "z"}

Digits == {"0", "1", "2", "3", "4", "5", "6", "7", "8", "9"}

\* char::is_alphanumeric on the characters of the model
IsAlphanumeric(ch) == ch \in Letters \cup Digits

HexDigits ==
  <<"0", "1", "2", "3", "4", "5", "6", "7", "8", "9", "a", "b", "c", "d", "e", "f">>

RECURSIVE Hex(_)
\* format!("{:x}", n): lower-case hexadecimal without padding
Hex(n) == IF n < 16 THEN <<HexDigits[n + 1]>>
          ELSE Hex(n \div 16) \o <<HexDigits[(n % 16) + 1]>>

\* str::contains(pat)
Contains(s, pat) ==
  \E i \in 1..(Len(s) - Len(pat) + 1) : SubSeq(s, i, i + Len(pat) - 1) = pat

IsWhitespace(ch) == ch \in {" ", "\n", "\t"}

RECURSIVE SplitWhitespace(_, _)
\* str::split_whitespace: the maximal runs of non-whitespace, in order.
\* cur is the run being read.
SplitWhitespace(s, cur) ==
  IF s = <<>> THEN (IF cur = <<>> THEN <<>> ELSE <<cur>>)
  ELSE IF IsWhitespace(Head(s))
       THEN (IF cur = <<>> THEN <<>> ELSE <<cur>>) \o SplitWhitespace(Tail(s), <<>>)
       ELSE SplitWhitespace(Tail(s), cur \o <<Head(s)>>)

RECURSIVE Join(_)
\* args.join(" ")
Join(args) ==
  IF args = <<>> THEN <<>>
  ELSE IF Len(args) = 1 THEN args[1]
  ELSE args[1] \o <<" ">> \o Join(Tail(args))

(***************************************************************************)
(* The text of the program.                                                *)
(***************************************************************************)
TargetC == <<".", "/", "t", "a", "r", "g", "e", "t", "/", "c", "/">>

TargetZZ == <<".", "/", "t", "a", "r", "g", "e", "t", "/", "z", "z", "/">>

TargetDir == <<".", "/", "t", "a", "r", "g", "e", "t", "/">>

DotO == <<".", "o">>

DotSo == <<".", "s", "o">>

\* cflags pushed by Make::new after the package flags
BaselineCflags ==
  << <<"-fPIC">>, <<"-I">>, <<".">>, <<"-I">>,
     <<".", "/", "t", "a", "r", "g", "e", "t", "/", "i", "n", "c", "l", "u", "d", "e", "/">>,
     <<"-fvisibility=hidden">> >>

\* the flags Make::build adds to cflags
WarningFlags ==
  << <<"-Werror=implicit-function-declaration">>,
     <<"-Werror=incompatible-pointer-types">>,
     <<"-Werror=return-type">>,
     <<"-Wpedantic">>,
     <<"-Wall">>,
     <<"-Wno-unused-function">>,
     <<"-Wno-parentheses-equality">>,
     <<"-Werror=pointer-sign">>,
     <<"-Werror=int-to-pointer-cast">> >>

(***************************************************************************)
(* The hash.  metro::hash128 is a library function of bytes; it is         *)
(* modelled by a polynomial hash of the pieces, reduced modulo HashMod:    *)
(* deterministic, and not injective.                                       *)
(***************************************************************************)
Alphabet ==
  <<" ", "\n", ".", "/", "_", "+", "=",
    "0", "1", "2", "3", "4", "5", "6", "7", "8", "9",
    "a", "b", "c", "d", "e", "f", "g", "h", "i", "j", "k", "l", "m", "n",
    "o", "p", "q", "r", "s", "t", "u", "v", "w", "x", "y", "z",
    "-c", "-o", "-I", "-std=", "-fPIC", "-fvisibility=hidden",
    "-Werror=implicit-function-declaration", "-Werror=incompatible-pointer-types",
    "-Werror=return-type", "-Wpedantic", "-Wall", "-Wno-unused-function",
    "-Wno-parentheses-equality", "-Werror=pointer-sign",
    "-Werror=int-to-pointer-cast",
    "-DA", "-DB", "-DZ", "-lz", "-lm", "-shared">>

Code(piece) == CHOOSE i \in 1..Len(Alphabet) : Alphabet[i] = piece

RECURSIVE PowMod(_, _)
\* b^e modulo HashMod
PowMod(b, e) ==
  IF e = 0 THEN 1
  ELSE LET half == PowMod(b, e \div 2)
           sq == (half * half) % HashMod
       IN  IF e % 2 = 0 THEN sq ELSE (sq * b) % HashMod

RECURSIVE HashRange(_, _, _)
\* the polynomial hash of bytes[lo..hi]: the sum of Code(bytes[i]) * 131^(hi-i)
HashRange(bytes, lo, hi) ==
  IF lo > hi THEN 0
  ELSE IF lo = hi THEN Code(bytes[lo]) % HashMod
  ELSE LET mid == (lo + hi) \div 2
       IN  (HashRange(bytes, lo, mid) * PowMod(131, hi - mid)
            + HashRange(bytes, mid + 1, hi)) % HashMod

Hash128(bytes) == (7 * PowMod(131, Len(bytes)) + HashRange(bytes, 1, Len(bytes))) % HashMod

(***************************************************************************)
(* The inputs: files, projects, artifacts, generated translation units.    *)
(***************************************************************************)
AC == <<"a", ".", "c">>

BC == <<"b", ".", "c">>

MZZ == <<"m", ".", "z", "z">>

HZZ == <<"h", ".", "z", "z">>

\* the files whose modification time the staleness check reads
SourceFiles == {AC, BC, MZZ, HZZ}

\* emitter::CFile values: name, filepath and the set of contributing sources.
\* CFileK names another unit that the emitter wrote to the file of CFileM.
CFileM == [name |-> <<"m">>, filepath |-> <<"m", ".", "c">>, sources |-> {MZZ, HZZ}]

CFileK == [name |-> <<"k">>, filepath |-> <<"m", ".", "c">>, sources |-> {MZZ}]

\* the files the emitter has written: they exist whenever a Step reads them
GeneratedPaths == {CFileM.filepath, CFileK.filepath}

\* project::Project: an absent list (None) is the empty list
ProjectBase ==
  [std |-> None, cincludes |-> <<>>, pkgconfig |-> <<>>, cflags |-> <<>>,
   lflags |-> <<>>, cobjects |-> <<AC>>]

EnvNone == [CC |-> None, CXX |-> None]

EnvSet == [CC |-> Some(<<"gcc">>), CXX |-> Some(<<"g++">>)]

\* one invocation of the program: the project, the artifact and the environment
InvPlain ==
  [project |-> ProjectBase, artifact |-> [name |-> <<"p">>, typ |-> "Exe"],
   env |-> EnvNone]

\* one user flag whose text holds a space
InvOneFlag ==
  [project |-> [ProjectBase EXCEPT !.cflags = << <<"-DA", " ", "-DB">> >>],
   artifact |-> [name |-> <<"p">>, typ |-> "Exe"], env |-> EnvNone]

\* the same text as two user flags
InvTwoFlags ==
  [project |-> [ProjectBase EXCEPT !.cflags = << <<"-DA">>, <<"-DB">> >>],
   artifact |-> [name |-> <<"p">>, typ |-> "Exe"], env |-> EnvNone]

InvLib ==
  [project |-> [std |-> Some(<<"c", "+", "+", "1", "1">>),
                cincludes |-> << <<"i", "n", "c">> >>,
                pkgconfig |-> << <<"z">> >>,
                cflags |-> << <<"-DA">> >>,
                lflags |-> << <<"-lm">> >>,
                cobjects |-> <<BC>>],
   artifact |-> [name |-> <<"l">>, typ |-> "Lib"], env |-> EnvSet]

InvTest ==
  [project |-> [ProjectBase EXCEPT !.std = Some(<<"c", "9", "9">>),
                                   !.cobjects = <<AC, AC>>],
   artifact |-> [name |-> <<"t">>, typ |-> "Test"], env |-> EnvSet]

InvHeader ==
  [project |-> [ProjectBase EXCEPT !.cobjects = <<>>],
   artifact |-> [name |-> <<"h">>, typ |-> "Header"], env |-> EnvNone]

InvEmpty ==
  [project |-> [ProjectBase EXCEPT !.cobjects = <<>>],
   artifact |-> [name |-> <<"p">>, typ |-> "Exe"], env |-> EnvNone]

\* what Command::status returns: Some(code), or None when a signal killed the child
ExitStatuses == {Some(0), Some(1), None}

\* what a behaviour may run: the invocations, the generated units the caller
\* may register and how many registrations a build may hold, the number of
\* builds, the source files that may be absent at first and those that the
\* environment may write, and what the external
\* tools may do (their exit statuses, and whether starting one may fail)
PlanSingle ==
  [invocations |-> {InvPlain, InvLib, InvTest, InvHeader},
   cfiles |-> {CFileM, CFileK}, units |-> MaxUnits, builds |-> 1,
   absent |-> {AC}, touch |-> {AC}, statuses |-> ExitStatuses, executed |-> BOOLEAN]

PlanRebuild ==
  [invocations |-> {InvPlain, InvOneFlag, InvTwoFlags},
   cfiles |-> {CFileM}, units |-> 2, builds |-> MaxBuilds,
   absent |-> {AC, MZZ}, touch |-> {AC, HZZ}, statuses |-> {Some(0), Some(1)}, executed |-> {TRUE}]

(***************************************************************************)
(* Make::new: the flag sets.                                               *)
(***************************************************************************)
RECURSIVE IncludeFlags(_)
\* lines 37-42
IncludeFlags(cincs) ==
  IF cincs = <<>> THEN <<>>
  ELSE << <<"-I">>, Head(cincs) >> \o IncludeFlags(Tail(cincs))

\* pkg-config of the environment: with tool "ok" it prints the flags of the
\* package; with "missing" it exits non-zero and prints nothing; with "noexec"
\* it cannot be executed (Command::output is Err)
PkgConfig(tool, query, pkg) ==
  IF tool = "noexec" THEN None
  ELSE Some([status |-> IF tool = "ok" THEN 0 ELSE 1,
             stdout |-> IF tool # "ok" THEN <<>>
                        ELSE IF query = "--cflags"
                             THEN <<"-DZ", " ", "-I">> \o pkg \o <<"\n">>
                             ELSE <<"-lz", "\n">>])

RECURSIVE PkgFlags(_, _, _)
\* lines 44-70 for one of the two queries: None when an expect panics,
\* otherwise Some(the flags of every package in order)
PkgFlags(tool, query, pkgs) ==
  IF pkgs = <<>> THEN Some(<<>>)
  ELSE LET out == PkgConfig(tool, query, Head(pkgs))
           rest == PkgFlags(tool, query, Tail(pkgs))
       IN  IF out = None \/ rest = None THEN None
           ELSE Some(SplitWhitespace(out[1].stdout, <<>>) \o rest[1])

RECURSIVE QueriesRun(_, _, _)
\* lines 44-70: the outcomes of the queries that are run, in order: for each
\* package the --cflags query, then the --libs query; a query that cannot
\* be executed is the last one (expect panics)
QueriesRun(toolC, toolL, pkgs) ==
  IF pkgs = <<>> THEN <<>>
  ELSE IF toolC = "noexec" THEN <<toolC>>
  ELSE IF toolL = "noexec" THEN <<toolC, toolL>>
  ELSE <<toolC, toolL>> \o QueriesRun(toolC, toolL, Tail(pkgs))

\* lines 28-35
ChooseCC(p, env) ==
  LET cc0 == IF env.CC = None THEN <<"clang">> ELSE env.CC[1]
  IN  IF p.std # None /\ Contains(p.std[1], <<"c", "+", "+">>)
      THEN (IF env.CXX = None THEN <<"clang++">> ELSE env.CXX[1])
      ELSE cc0

\* lines 30-31
StdFlags(p) == IF p.std = None THEN <<>> ELSE << <<"-std=">> \o p.std[1] >>

\* lines 25-84: the compile flags (pkgc: the package compile flags)
NewCflags(p, pkgc) ==
  StdFlags(p) \o IncludeFlags(p.cincludes) \o pkgc \o BaselineCflags \o p.cflags

\* lines 25-87: the link flags (pkgl: the package link flags)
NewLflags(p, pkgl) == pkgl \o p.lflags

(***************************************************************************)
(* The namer.                                                              *)
(***************************************************************************)
\* line 136: replace(|c| !c.is_alphanumeric(), "_")
Sanitize(s) == [i \in 1..Len(s) |-> IF IsAlphanumeric(s[i]) THEN s[i] ELSE "_"]

\* lines 129-132: the arguments the hash is taken of
CobjectArgs(cfl, inp) == cfl \o << <<"-c">>, inp, <<"-o">> >>

\* a name without the hash: one object per source, whatever the flags
CobjectOutpNoHash(args, inp) == TargetC \o Sanitize(inp) \o DotO

\* a name that also hashes the link flags gathered so far
CobjectOutpWithLflags(args, inp) ==
  TargetC \o Sanitize(inp) \o <<"_">> \o Hex(Hash128(Join(args \o lflags))) \o DotO

\* lines 134-138
CobjectOutp(args, inp) ==
  TargetC \o Sanitize(inp) \o <<"_">> \o Hex(Hash128(Join(args))) \o DotO

\* the warning flags pushed before the clone of cflags is extended
BuildArgsWarningsFirst(cfl, cf) ==
  WarningFlags \o cfl \o << <<"-c">>, cf.filepath, <<"-o">> >>

\* lines 155-167
BuildArgs(cfl, cf) == cfl \o WarningFlags \o << <<"-c">>, cf.filepath, <<"-o">> >>

\* lines 169-171
BuildOutp(args, cf) ==
  TargetZZ \o cf.name \o <<"_">> \o Hex(Hash128(Join(args))) \o DotO

(***************************************************************************)
(* The staleness check.                                                    *)
(***************************************************************************)
\* the modification time 0 stands for metadata that cannot be read
NoFile == 0

\* std::fs::metadata(p) and modified()
Stat(files, p) == IF p \in DOMAIN files THEN files[p] ELSE NoFile

RECURSIVE ScanSourcesNotOlder(_, _, _)
\* the loop with >= for >: a source as old as the target would be stale
ScanSourcesNotOlder(files, order, itarget) ==
  IF order = <<>> THEN "false"
  ELSE IF Stat(files, Head(order)) = NoFile THEN "panic"
  ELSE IF Stat(files, Head(order)) >= itarget THEN "true"
  ELSE ScanSourcesNotOlder(files, Tail(order), itarget)

RECURSIVE ScanSources(_, _, _)
\* lines 115-124: the loop over the sources, in the order the HashSet yields
ScanSources(files, order, itarget) ==
  IF order = <<>> THEN "false"
  ELSE IF Stat(files, Head(order)) = NoFile THEN "panic"
  ELSE IF Stat(files, Head(order)) > itarget THEN "true"
  ELSE ScanSources(files, Tail(order), itarget)

\* lines 108-125: "true", "false", or "panic" (an expect failed)
IsDirty(files, order, target) ==
  IF Stat(files, target) = NoFile THEN "true"
  ELSE ScanSources(files, order, Stat(files, target))

(***************************************************************************)
(* The state: tuples of variables, the initial state.                      *)
(***************************************************************************)
makeVars == <<artifact, cc, cflags, lflags, steps>>

runVars == <<stepState, spawns, spawnedCC, returned, pb, linkArgv, linker>>

histVars == <<lflags0, regs, lastDirty, prev, pkgQueries, touched>>

vars ==
  <<plan, fs, clock, touches, builds, pc, inv, pending, makeVars, runVars, exitCode, histVars>>

\* a Rust panic that reaches main ends the process with code 101
PanicExit == Some(101)

\* line 198, line 231: unwrap_or(3)
FallbackCode == 3

Success(status) == status = Some(0)

\* no linker subprocess yet
NoLinker == [state |-> "none", cc |-> <<>>, returned |-> <<>>]

NoCheck == [sources |-> {}, target |-> <<>>, order |-> <<>>, itarget |-> NoFile,
            isources |-> <<>>, result |-> "none"]

NoPrev == [ended |-> "none", inv |-> InvEmpty, regs |-> <<>>, touched |-> {}]

InitWith(p) ==
  /\ plan = p
  /\ fs \in {f \in [SourceFiles -> {NoFile, 1}] :
                \A x \in SourceFiles \ p.absent : f[x] = 1}
  /\ clock = 1
  /\ touches = 0
  /\ builds = 0
  /\ pc = "idle"
  /\ inv = InvEmpty
  /\ pending = <<>>
  /\ artifact = InvEmpty.artifact
  /\ cc = <<>>
  /\ cflags = <<>>
  /\ lflags = <<>>
  /\ steps = <<>>
  /\ stepState = <<>>
  /\ spawns = <<>>
  /\ spawnedCC = {}
  /\ returned = <<>>
  /\ pb = [total |-> 0, count |-> 0]
  /\ linkArgv = None
  /\ linker = NoLinker
  /\ exitCode = None
  /\ lflags0 = <<>>
  /\ regs = <<>>
  /\ lastDirty = NoCheck
  /\ prev = NoPrev
  /\ pkgQueries = <<>>
  /\ touched = {}

(***************************************************************************)
(* Unit registration.                                                      *)
(***************************************************************************)
\* lflags.push(outp): the object after the flags and the earlier objects
InsertBack(lfl, outp) == Append(lfl, outp)

\* lflags[0] = outp: the first link flag is overwritten
InsertFrontOverwrite(lfl, outp) ==
  IF lfl = <<>> THEN <<outp>> ELSE <<outp>> \o Tail(lfl)

\* the insert moved into the `if is_dirty` branch, for an object that is not
\* there yet: an object of the cache would not be linked
InsertFrontIfBuilt(lfl, outp) ==
  IF Stat(fs, outp) = NoFile THEN <<outp>> \o lfl ELSE lfl

\* lines 151, 180: lflags.insert(0, outp)
InsertFront(lfl, outp) == <<outp>> \o lfl

\* what an is_dirty call read and answered
Check(sources, order, target, result) ==
  [sources |-> sources, target |-> target, order |-> order,
   itarget |-> Stat(fs, target),
   isources |-> [x \in sources |-> Stat(fs, x)],
   result |-> result]

\* lines 144-151 and 174-180: the end of cobject and of build, for the unit
\* `unit` of kind `kind` with hash input `args`, output `outp`, Step source
\* `source`; `next` is where the caller continues
Enqueue(kind, unit, source, args, outp, next) ==
  \E order \in Perms(unit.sources) :
    LET dirty == IsDirty(fs, order, outp)
    IN  /\ lastDirty' = Check(unit.sources, order, outp, dirty)
        /\ IF dirty = "panic"
           THEN /\ pc' = "panicked"
                /\ exitCode' = PanicExit
                /\ UNCHANGED <<steps, lflags, regs>>
           ELSE /\ pc' = next
                /\ exitCode' = exitCode
                /\ steps' = IF dirty = "true"
                            THEN Append(steps, [source |-> source,
                                                args |-> Append(args, outp)])
                            ELSE steps
                /\ lflags' = InsertFront(lflags, outp)
                /\ regs' = Append(regs, [kind |-> kind, unit |-> unit, args |-> args,
                                         outp |-> outp, dirty |-> dirty = "true"])

\* lines 127-152: Make::cobject
Cobject(inp, next) ==
  LET args == CobjectArgs(cflags, inp)
  IN  Enqueue("c", [name |-> <<>>, filepath |-> inp, sources |-> {inp}], inp,
              args, CobjectOutp(args, inp), next)

\* lines 154-181: Make::build
Build(cf, next) ==
  LET args == BuildArgs(cflags, cf)
  IN  Enqueue("zz", cf, cf.filepath, args, BuildOutp(args, cf), next)

(***************************************************************************)
(* The actions.                                                            *)
(***************************************************************************)
Terminal == {"done", "exited", "panicked"}

\* the environment writes a source file between two invocations
Touch ==
  /\ pc \in Terminal \cup {"idle"}
  /\ builds < plan.builds
  /\ touches < MaxTouches
  /\ touches' = touches + 1
  /\ \E f \in plan.touch, t \in {clock, clock + 1} :
       /\ fs' = [fs EXCEPT ![f] = t]
       /\ clock' = t
       /\ touched' = touched \cup {f}
  /\ UNCHANGED <<plan, builds, pc, inv, pending, makeVars, runVars, exitCode,
                 lflags0, regs, lastDirty, prev, pkgQueries>>

\* what a pkg-config query may do in this behaviour
PkgTools == {"ok", "missing"} \cup {"noexec" : x \in {y \in plan.executed : ~y}}

\* lines 23-96: a new process runs Make::new up to the construction of Make
New ==
  /\ pc \in Terminal \cup {"idle"}
  /\ builds < plan.builds
  /\ \E i \in plan.invocations, toolC \in PkgTools, toolL \in PkgTools :
       LET p == i.project
           pkgc == PkgFlags(toolC, "--cflags", p.pkgconfig)
           pkgl == PkgFlags(toolL, "--libs", p.pkgconfig)
           failed == pkgc = None \/ pkgl = None
       IN  \* one choice stands for the outcomes of queries that are not run
           /\ (p.pkgconfig = <<>>) => (toolC = "ok" /\ toolL = "ok")
           /\ (toolC = "noexec") => (toolL = "noexec")
           /\ pkgQueries' = QueriesRun(toolC, toolL, p.pkgconfig)
           /\ inv' = i
           /\ artifact' = i.artifact
           /\ cc' = IF failed THEN <<>> ELSE ChooseCC(p, i.env)
           /\ cflags' = IF failed THEN <<>> ELSE NewCflags(p, pkgc[1])
           /\ lflags' = IF failed THEN <<>> ELSE NewLflags(p, pkgl[1])
           /\ lflags0' = lflags'
           /\ steps' = <<>>
           /\ pending' = IF failed THEN <<>> ELSE p.cobjects
           /\ pc' = IF failed THEN "panicked"
                    ELSE IF p.cobjects = <<>> THEN "reg" ELSE "new"
           /\ exitCode' = IF failed THEN PanicExit ELSE None
  /\ builds' = builds + 1
  /\ prev' = [ended |-> pc, inv |-> inv, regs |-> regs, touched |-> touched]
  /\ touched' = {}
  /\ regs' = <<>>
  /\ lastDirty' = NoCheck
  /\ stepState' = <<>>
  /\ spawns' = <<>>
  /\ spawnedCC' = {}
  /\ returned' = <<>>
  /\ pb' = [total |-> 0, count |-> 0]
  /\ linkArgv' = None
  /\ linker' = NoLinker
  /\ UNCHANGED <<plan, fs, clock, touches>>

\* lines 98-102: Make::new registers the next of the project's cobjects
NewCobject ==
  /\ pc = "new"
  /\ pending # <<>>
  /\ Cobject(Head(pending), IF Len(pending) = 1 THEN "reg" ELSE "new")
  /\ pending' = Tail(pending)
  /\ UNCHANGED <<plan, fs, clock, touches, builds, inv, artifact, cc, cflags, runVars,
                 lflags0, prev, pkgQueries, touched>>

\* the caller registers a generated translation unit
CallBuild ==
  /\ pc = "reg"
  /\ Len(regs) < plan.units
  /\ \E cf \in plan.cfiles : Build(cf, "reg")
  /\ UNCHANGED <<plan, fs, clock, touches, builds, inv, pending, artifact, cc, cflags,
                 runVars, lflags0, prev, pkgQueries, touched>>

\* lines 184-189: Make::link starts the parallel iteration over the Steps
LinkBegin ==
  /\ pc = "reg"
  /\ pc' = "compile"
  /\ pb' = [total |-> Len(steps), count |-> 0]
  /\ stepState' = [i \in 1..Len(steps) |-> "queued"]
  /\ spawns' = [i \in 1..Len(steps) |-> 0]
  /\ returned' = [i \in 1..Len(steps) |-> <<>>]
  /\ UNCHANGED <<plan, fs, clock, touches, builds, inv, pending, makeVars, spawnedCC,
                 linkArgv, linker, exitCode, histVars>>

Running == {i \in 1..Len(steps) : stepState[i] = "running"}

\* an iteration that hands out a Step again after its closure has returned
StepSpawnAgain ==
  /\ pc = "compile"
  /\ Cardinality(Running) < NumWorkers
  /\ \E i \in 1..Len(steps) :
       /\ stepState[i] \in {"queued", "ok"}
       /\ stepState' = [stepState EXCEPT ![i] = "running"]
       /\ spawns' = [spawns EXCEPT ![i] = @ + 1]
       /\ spawnedCC' = spawnedCC \cup {cc}
  /\ UNCHANGED <<plan, fs, clock, touches, builds, pc, inv, pending, makeVars, pb,
                 returned, linkArgv, linker, exitCode, histVars>>

\* lines 190-195: a free worker takes a Step and starts its compiler
StepSpawn ==
  /\ pc = "compile"
  /\ Cardinality(Running) < NumWorkers
  /\ \E i \in 1..Len(steps), executed \in plan.executed :
       /\ stepState[i] = "queued"
       /\ IF executed
          THEN /\ stepState' = [stepState EXCEPT ![i] = "running"]
               /\ spawns' = [spawns EXCEPT ![i] = @ + 1]
               /\ spawnedCC' = spawnedCC \cup {cc}
          ELSE \* expect("failed to execute cc") panics in the worker
               /\ stepState' = [stepState EXCEPT ![i] = "panicked"]
               /\ spawns' = spawns
               /\ spawnedCC' = spawnedCC
  /\ UNCHANGED <<plan, fs, clock, touches, builds, pc, inv, pending, makeVars, pb,
                 returned, linkArgv, linker, exitCode, histVars>>

\* the compiler can exit 0 only if the file it compiles exists; it then has
\* written the output named by the last argument
CanCompile(step) ==
  step.source \in GeneratedPaths \/ Stat(fs, step.source) # NoFile

\* unwrap_or(0): a child killed by a signal would read as success
ExitCodeOrZero(status) == IF status = None THEN 0 ELSE status[1]

\* lines 198, 231: status.code().unwrap_or(3)
ExitCodeOf(status) == IF status = None THEN FallbackCode ELSE status[1]

\* the output a Step's compiler writes: the argument after "-o", its last
OutputOf(step) == step.args[Len(step.args)]

\* an increment without the lock: the write of a worker that read the counter
\* while another worker was in its closure is lost
IncUnlocked(p) ==
  IF Cardinality(Running) > 1 THEN p ELSE [p EXCEPT !.count = @ + 1]

\* line 200: pb.lock().unwrap().inc(), one step under the mutex
Inc(p) == [p EXCEPT !.count = @ + 1]

\* lines 196-200: the compiler of a Step returns; the closure checks the
\* status, which no other worker sees, and exits or increments the counter
StepReturn ==
  /\ pc = "compile"
  /\ \E i \in Running, status \in plan.statuses :
       /\ returned' = [returned EXCEPT ![i] = Append(@, status)]
       /\ IF Success(status)
          THEN /\ CanCompile(steps[i])
               /\ fs' = [x \in DOMAIN fs \cup {OutputOf(steps[i])} |->
                           IF x = OutputOf(steps[i]) THEN clock ELSE fs[x]]
               /\ stepState' = [stepState EXCEPT ![i] = "ok"]
               /\ pb' = Inc(pb)
               /\ UNCHANGED <<pc, exitCode>>
          ELSE /\ pc' = "exited"
               /\ exitCode' = Some(ExitCodeOf(status))
               /\ UNCHANGED <<fs, stepState, pb>>
  /\ UNCHANGED <<plan, clock, touches, builds, inv, pending, makeVars, spawns, spawnedCC,
                 linkArgv, linker, histVars>>

\* -fvisibility=hidden pushed before the match on the artifact type
LinkFlagsVisibilityFirst(art, lfl) ==
  IF art.typ = "Lib"
  THEN Some(lfl \o << <<"-fvisibility=hidden">>, <<"-shared">>, <<"-o">>,
                      TargetDir \o art.name \o DotSo >>)
  ELSE IF art.typ \in {"Exe", "Test"}
  THEN Some(lfl \o << <<"-fvisibility=hidden">>, <<"-o">>, TargetDir \o art.name >>)
  ELSE None

\* lines 203-221: the link flags of the artifact; None for a Header (panic)
LinkFlags(art, lfl) ==
  IF art.typ = "Lib"
  THEN Some(lfl \o << <<"-shared">>, <<"-o">>, TargetDir \o art.name \o DotSo,
                      <<"-fvisibility=hidden">> >>)
  ELSE IF art.typ \in {"Exe", "Test"}
  THEN Some(lfl \o << <<"-o">>, TargetDir \o art.name, <<"-fvisibility=hidden">> >>)
  ELSE None

\* a join that waits only for the Steps already started
NoneRunning == \A i \in 1..Len(steps) : stepState[i] # "running"

\* lines 189-201: for_each returns once the closure has returned or panicked
\* for every Step
AllReturned == \A i \in 1..Len(steps) : stepState[i] \in {"ok", "panicked"}

\* lines 201-229: the parallel iteration has returned; the linker is started
LinkSpawn ==
  /\ pc = "compile"
  /\ AllReturned
  /\ \E executed \in plan.executed :
       LET args == LinkFlags(artifact, lflags)
       IN  IF \E i \in 1..Len(steps) : stepState[i] = "panicked"
           THEN \* the panic of a worker is resumed in the caller
                /\ executed
                /\ pc' = "panicked"
                /\ exitCode' = PanicExit
                /\ UNCHANGED <<lflags, linkArgv, linker>>
           ELSE IF args = None
           THEN /\ executed
                /\ pc' = "panicked"
                /\ exitCode' = PanicExit
                /\ UNCHANGED <<lflags, linkArgv, linker>>
           ELSE IF executed
           THEN /\ pc' = "link"
                /\ lflags' = args[1]
                /\ linkArgv' = Some(args[1])
                /\ linker' = [state |-> "running", cc |-> cc, returned |-> <<>>]
                /\ exitCode' = exitCode
           ELSE \* expect("failed to execute linker")
                /\ pc' = "panicked"
                /\ lflags' = args[1]
                /\ linkArgv' = linkArgv
                /\ linker' = [state |-> "noexec", cc |-> cc, returned |-> <<>>]
                /\ exitCode' = PanicExit
  /\ UNCHANGED <<plan, fs, clock, touches, builds, inv, pending, artifact, cc, cflags, steps,
                 stepState, spawns, spawnedCC, returned, pb, histVars>>

\* lines 230-235: the linker returns
LinkReturn ==
  /\ pc = "link"
  /\ \E status \in plan.statuses :
       /\ linker' = [linker EXCEPT !.state = "returned", !.returned = <<status>>]
       /\ IF Success(status)
          THEN pc' = "done" /\ exitCode' = exitCode
          ELSE pc' = "exited" /\ exitCode' = Some(ExitCodeOf(status))
  /\ UNCHANGED <<plan, fs, clock, touches, builds, inv, pending, makeVars, stepState, spawns,
                 spawnedCC, returned, pb, linkArgv, histVars>>

Next ==
  \/ Touch
  \/ New
  \/ NewCobject
  \/ CallBuild
  \/ LinkBegin
  \/ StepSpawn
  \/ StepReturn
  \/ LinkSpawn
  \/ LinkReturn

Init == InitWith(PlanSingle)

InitRebuild == InitWith(PlanRebuild)

\* one invocation, every kind of project and artifact
Spec == Init /\ [][Next]_vars

\* repeated invocations over one object cache
SpecRebuild == InitRebuild /\ [][Next]_vars

(***************************************************************************)
(* The claims.                                                             *)
(***************************************************************************)
StepIds == 1..Len(steps)

\* the Steps one of whose compiler subprocesses returned without success
FailedSteps ==
  {i \in 1..Len(returned) : \E k \in 1..Len(returned[i]) : ~Success(returned[i][k])}

\* C1: the linker subprocess is started only when every enqueued Step's
\* compiler has returned with a success status: a state in which the linker
\* has been started holds no Step that is queued, running or failed.
C1_LinkAfterAllSteps ==
  linkArgv # None =>
    \A i \in StepIds : stepState[i] = "ok" /\ returned[i] = <<Some(0)>>

\* C1 witness: the linker was started in a build of at least two Steps.
C1_Witness ==
  /\ linkArgv # None
  /\ Len(steps) >= 2
  /\ \A i \in StepIds : spawns[i] = 1

\* C2: once the compiler of a Step has returned a non-zero or signal status,
\* the process has exited with the code of such a Step (3 when the status has
\* no code) and no linker subprocess was started.
C2_FailFast ==
  FailedSteps # {} =>
    /\ pc = "exited"
    /\ linkArgv = None
    /\ \E i \in FailedSteps :
         LET status == returned[i][Len(returned[i])]
         IN  exitCode = IF status = None THEN Some(3) ELSE status

\* C2 witness: a Step was killed by a signal after another Step had succeeded;
\* the process exited with the fallback code.
C2_Witness ==
  /\ pc = "exited"
  /\ exitCode = Some(3)
  /\ \E i \in FailedSteps : returned[i] = <<None>>
  /\ \E j \in StepIds : stepState[j] = "ok"

\* C3 (as claimed): once a link is requested for a Header artifact, no compiler
\* and no linker subprocess is ever started, and the process ends non-zero.
C3_HeaderFailsBeforeSpawn ==
  (artifact.typ = "Header" /\ pc \notin {"idle", "new", "reg"}) =>
    /\ \A i \in StepIds : spawns[i] = 0
    /\ linkArgv = None
    /\ pc \in Terminal => exitCode \notin {None, Some(0)}

\* the last is_dirty call read every source's metadata, or would have
Readable(c) == \A x \in c.sources : c.isources[x] # NoFile

\* a source of the last is_dirty call is strictly newer than the target
Newer(c) == \E x \in c.sources : c.isources[x] > c.itarget

\* C4 (as claimed): is_dirty returns true when the target cannot be read, true
\* when the target exists and a source is strictly newer, and false when the
\* target exists and no source is strictly newer.
C4_IsDirtyAsClaimed ==
  lastDirty.result # "none" =>
    /\ lastDirty.itarget = NoFile => lastDirty.result = "true"
    /\ (lastDirty.itarget # NoFile /\ Newer(lastDirty)) => lastDirty.result = "true"
    /\ (lastDirty.itarget # NoFile /\ ~Newer(lastDirty)) => lastDirty.result = "false"

\* C4 (amended): the same, the last two cases for calls in which every
\* source's metadata can be read.
C4_IsDirty ==
  lastDirty.result # "none" =>
    /\ lastDirty.itarget = NoFile => lastDirty.result = "true"
    /\ (lastDirty.itarget # NoFile /\ Readable(lastDirty) /\ Newer(lastDirty))
         => lastDirty.result = "true"
    /\ (lastDirty.itarget # NoFile /\ Readable(lastDirty) /\ ~Newer(lastDirty))
         => lastDirty.result = "false"

\* C4 witness: a call with two sources, one exactly as old as the existing
\* target and none newer, answered false.
C4_Witness ==
  /\ lastDirty.result = "false"
  /\ Cardinality(lastDirty.sources) = 2
  /\ \E x \in lastDirty.sources : lastDirty.isources[x] = lastDirty.itarget

\* C5 (as claimed): an is_dirty call one of whose sources cannot be read
\* aborts the build: it returns nothing and no Step is enqueued.
C5_UnreadableSourceAborts ==
  (lastDirty.result # "none" /\ ~Readable(lastDirty)) =>
    lastDirty.result = "panic" /\ pc = "panicked"

\* the object paths of the registrations of this build, in order
RegOutps == [i \in 1..Len(regs) |-> regs[i].outp]

\* C6: the link flags begin with the object paths of the registered units in
\* reverse registration order, followed by the package-config and user link
\* flags that Make::new gathered.
C6_LinkOrder ==
  /\ Len(lflags) >= Len(regs) + Len(lflags0)
  /\ SubSeq(lflags, 1, Len(regs) + Len(lflags0)) = Reverse(RegOutps) \o lflags0

\* C6 witness: a foreign unit, then two generated units with different
\* objects, in a project with package-config and user link flags.
C6_Witness ==
  /\ Len(regs) = 3
  /\ regs[1].kind = "c" /\ regs[2].kind = "zz" /\ regs[3].kind = "zz"
  /\ regs[2].outp # regs[3].outp
  /\ Len(lflags0) >= 2
  /\ lflags[1] = regs[3].outp /\ lflags[2] = regs[2].outp /\ lflags[3] = regs[1].outp

HashInput(step) == Join(SubSeq(step.args, 1, Len(step.args) - 1))

\* the hash does not collide on the two texts
CollisionFree(a, b) == (a # b) => (Hash128(a) # Hash128(b))

\* C9 (as claimed): any two distinct Steps of the queue have distinct output
\* paths (the hash taken as collision-free on their arguments).
C9_DistinctOutputs ==
  \A i, j \in StepIds :
    (i # j /\ CollisionFree(HashInput(steps[i]), HashInput(steps[j])))
      => OutputOf(steps[i]) # OutputOf(steps[j])

\* r and c register the same unit
SameUnit(r, c) == r.kind = c.kind /\ r.unit = c.unit

\* the object of registration r exists and no source of its unit is newer
UpToDate(r) ==
  /\ Stat(fs, r.outp) # NoFile
  /\ \A x \in r.unit.sources : Stat(fs, x) # NoFile /\ Stat(fs, x) <= Stat(fs, r.outp)

RepeatsPrev ==
  /\ builds >= 2
  /\ prev.ended = "done"
  /\ prev.touched = {}
  /\ inv = prev.inv
  /\ Len(regs) <= Len(prev.regs)
  /\ \A i \in 1..Len(regs) : SameUnit(prev.regs[i], regs[i])

\* the staleness check of the next unit of the previous build panicked
AbortedOnRepeat ==
  /\ pc = "panicked"
  /\ lastDirty.result = "panic"
  /\ Len(regs) < Len(prev.regs)
  /\ lastDirty.target = prev.regs[Len(regs) + 1].outp

\* C10 (as claimed): a build that repeats a fully successful build with no
\* file written in between enqueues no Step and does not abort in
\* registration, and its linker is started with every unit's object path.
C10_RepeatBuildsNothing ==
  RepeatsPrev =>
    /\ steps = <<>>
    /\ ~AbortedOnRepeat
    /\ linkArgv # None =>
         \A i \in 1..Len(regs) :
           \E k \in 1..Len(linkArgv[1]) : linkArgv[1][k] = regs[i].outp

\* this build repeats the previous one, which ended with the linker's
\* success, after the environment wrote the one file f, which is now newer
\* than every object of the previous build; registration is under way or has
\* just aborted
RebuildAfterTouch(f) ==
  /\ builds >= 2
  /\ prev.ended = "done"
  /\ prev.touched = {f}
  /\ inv = prev.inv
  /\ pc \in {"new", "reg", "panicked"}
  /\ Len(regs) <= Len(prev.regs)
  /\ \A i \in 1..Len(regs) : SameUnit(prev.regs[i], regs[i])
  /\ \A i \in 1..Len(prev.regs) : Stat(fs, f) > Stat(fs, prev.regs[i].outp)

\* C11 (as claimed): in the build that follows a fully successful build and
\* the write of one file newer than the cached objects, a unit gets a Step if
\* and only if the file is in its source set, and the registration of the
\* units does not abort.
C11_TouchRebuilds ==
  \A f \in SourceFiles :
    RebuildAfterTouch(f) =>
      /\ \A i \in 1..Len(regs) : regs[i].dirty <=> (f \in regs[i].unit.sources)
      /\ ~AbortedOnRepeat

\* C12 (as claimed): once a pkg-config query has failed, by not being
\* executable or by a non-zero exit, the build has aborted in Make::new: no
\* flags were produced, no unit is registered, and no compiler or linker
\* subprocess is started.
C12_PkgConfigFailureAborts ==
  (\E k \in 1..Len(pkgQueries) : pkgQueries[k] # "ok") =>
    /\ pc = "panicked"
    /\ exitCode \notin {None, Some(0)}
    /\ cflags = <<>> /\ lflags = <<>>
    /\ regs = <<>> /\ steps = <<>>
    /\ \A i \in 1..Len(spawns) : spawns[i] = 0
    /\ linkArgv = None

\* the pkg-config queries that failed
PkgFailures == {k \in 1..Len(pkgQueries) : pkgQueries[k] # "ok"}

\* the linker returned without success
LinkerFailed == linker.state = "returned" /\ ~Success(linker.returned[1])

\* every external tool the build has started could be executed
AllExecuted ==
  /\ \A k \in 1..Len(pkgQueries) : pkgQueries[k] # "noexec"
  /\ \A i \in 1..Len(stepState) : stepState[i] # "panicked"
  /\ linker.state # "noexec"

\* the exit code the claim gives a tool that returned status: its own code,
\* or the fallback code when it has none (killed by a signal)
ClaimedExit(status) == IF status = None THEN Some(FallbackCode) ELSE status

\* C13 (as claimed): when the process has ended, its exit status is that of
\* the first external tool that failed: a pkg-config query, else a compiler,
\* else the linker, with the fallback code for a tool killed by a signal; when
\* no tool failed, link has returned without exiting (status zero).  Ends that
\* no tool's status caused (a tool that could not be executed, a Header
\* artifact, a source that cannot be read) are left aside.
C13_ExitStatus ==
  (pc \in Terminal /\ AllExecuted) =>
    IF PkgFailures # {}
    THEN exitCode = Some(PkgConfig("missing", "--cflags", <<>>)[1].status)
    ELSE IF FailedSteps # {}
    THEN \E i \in FailedSteps : exitCode = ClaimedExit(returned[i][Len(returned[i])])
    ELSE IF LinkerFailed
    THEN exitCode = ClaimedExit(linker.returned[1])
    ELSE \/ pc = "done" /\ exitCode = None
         \/ pc = "panicked" /\ artifact.typ = "Header"
         \/ pc = "panicked" /\ lastDirty.result = "panic"

\* the registrations of this build that found their unit stale, in order
StaleRegs == SelectSeq(regs, LAMBDA r : r.dirty)

\* how often the path o is among the link flags
Occurrences(o) == Cardinality({k \in 1..Len(lflags) : lflags[k] = o})

\* C14: the Steps are, in order, those of the registrations whose is_dirty
\* call answered true (source, arguments and output path of the unit), so
\* there are never more Steps than registrations; the last completed
\* registration has a Step iff its is_dirty call answered true; and every
\* object path is among the link flags once for each registration of it.
C14_StepIffStale ==
  /\ Len(steps) <= Len(regs)
  /\ Len(steps) = Len(StaleRegs)
  /\ \A k \in 1..Len(steps) :
       /\ steps[k].source = StaleRegs[k].unit.filepath
       /\ steps[k].args = Append(StaleRegs[k].args, StaleRegs[k].outp)
  /\ (regs # <<>> /\ lastDirty.result \in {"true", "false"}) =>
       /\ lastDirty.target = regs[Len(regs)].outp
       /\ regs[Len(regs)].dirty <=> (lastDirty.result = "true")
  /\ \A i \in 1..Len(regs) :
       Occurrences(regs[i].outp) =
         Cardinality({j \in 1..Len(regs) : regs[j].outp = regs[i].outp})

\* C14 witness: a build registered a unit whose cached object is up to date,
\* without a Step, and then a stale unit, with a Step; both objects are among
\* the link flags.
C14_Witness ==
  /\ Len(regs) = 2
  /\ ~regs[1].dirty /\ regs[2].dirty
  /\ Len(steps) = 1
  /\ OutputOf(steps[1]) = regs[2].outp
  /\ lflags[1] = regs[2].outp /\ lflags[2] = regs[1].outp

\* the argument list `args` of a unit with source `source` is the compile
\* flags, then the flags `middle`, then -c, the source and -o
ArgsShape(args, middle, source) ==
  LET n == Len(cflags)
      m == Len(middle)
  IN  /\ Len(args) = n + m + 3
      /\ SubSeq(args, 1, n) = cflags
      /\ SubSeq(args, n + 1, n + m) = middle
      /\ args[n + m + 1] = <<"-c">>
      /\ args[n + m + 2] = source
      /\ args[n + m + 3] = <<"-o">>

\* every Step's arguments are the hashed argument list of a registration of
\* this build followed by that registration's output path
StepArgsFromRegs ==
  \A k \in StepIds :
    \E i \in 1..Len(regs) :
      /\ SubSeq(steps[k].args, 1, Len(steps[k].args) - 1) = regs[i].args
      /\ OutputOf(steps[k]) = regs[i].outp

\* C15 (as claimed): the hashed argument list of every registered unit,
\* foreign or generated, is the compile flags, the warning flags, -c, the
\* source path, -o; a Step's arguments are that list and the output path.
C15_ArgsWithWarnings ==
  /\ \A i \in 1..Len(regs) : ArgsShape(regs[i].args, WarningFlags, regs[i].unit.filepath)
  /\ StepArgsFromRegs

\* C15 (amended): the same for generated units; the argument list of a
\* foreign unit is the compile flags, -c, the source path, -o, without the
\* warning flags.
C15_Args ==
  /\ \A i \in 1..Len(regs) :
       ArgsShape(regs[i].args,
                 IF regs[i].kind = "zz" THEN WarningFlags ELSE <<>>,
                 regs[i].unit.filepath)
  /\ StepArgsFromRegs

\* C15 witness: a foreign and a generated unit are enqueued in a project with
\* a language standard, include directories, package and user compile flags.
C15_Witness ==
  /\ Len(steps) >= 2
  /\ regs[1].kind = "c" /\ regs[2].kind = "zz"
  /\ Len(cflags) > Len(BaselineCflags) + 4
  /\ steps[1].args[Len(cflags) + 1] = <<"-c">>
  /\ steps[2].args[Len(cflags) + 1] = WarningFlags[1]

\* C16: no Step's compiler is started more than once; compilers are started
\* only for Steps of the queue, so at most one for each registration that
\* found its unit stale; and once the linker has been started, the compiler of
\* every Step has been started exactly once and has returned success.
C16_SpawnedOnce ==
  /\ DOMAIN spawns \subseteq StepIds
  /\ \A i \in DOMAIN spawns : spawns[i] <= 1 /\ Len(returned[i]) <= spawns[i]
  /\ Cardinality({i \in DOMAIN spawns : spawns[i] = 1}) <= Len(StaleRegs)
  /\ linker.state # "none" =>
       \A i \in StepIds : spawns[i] = 1 /\ returned[i] = <<Some(0)>>

\* C16 witness: a build of three Steps and two workers ended with the
\* linker's success.
C16_Witness ==
  /\ pc = "done"
  /\ Len(steps) = 3
  /\ linker.state = "returned"
  /\ \A i \in StepIds : spawns[i] = 1

\* the Steps whose closure has returned: their compiler returned success
DoneSteps == {i \in 1..Len(stepState) : stepState[i] = "ok"}

\* C17: the progress counter never exceeds its total, the number of Steps of
\* the queue; it is the number of Steps whose compiler has returned success,
\* each counted once; and it equals the total once the linker is started.
C17_ProgressCounter ==
  /\ pb.count <= pb.total
  /\ pc \in {"compile", "link", "done"} => pb.total = Len(steps)
  /\ pb.count = Cardinality(DoneSteps)
  /\ \A i \in DoneSteps : returned[i] = <<Some(0)>>
  /\ linker.state # "none" => pb.count = pb.total /\ pb.total = Len(steps)

\* C17 witness: two workers have run three Steps and the linker is running
\* with the counter at three of three.
C17_Witness ==
  /\ pc = "link"
  /\ pb = [total |-> 3, count |-> 3]
  /\ linker.state = "running"

\* the link flags gathered before link(): the objects, then Make::new's flags
LinkFlagsGathered == Reverse(RegOutps) \o lflags0

\* the flags of the artifact kind, as the claim lists them
KindFlags ==
  IF artifact.typ = "Lib"
  THEN << <<"-shared">>, <<"-o">>,
          <<".", "/", "t", "a", "r", "g", "e", "t", "/">> \o artifact.name \o <<".", "s", "o">> >>
  ELSE << <<"-o">>, <<".", "/", "t", "a", "r", "g", "e", "t", "/">> \o artifact.name >>

\* C18: the linker subprocess is started from the executable that every
\* compiler subprocess of the build was started from, and its arguments are
\* the gathered link flags, then the flags of the artifact kind, then
\* -fvisibility=hidden as the last argument.
C18_LinkInvocation ==
  linkArgv # None =>
    /\ linker.cc = cc
    /\ \A x \in spawnedCC : x = linker.cc
    /\ artifact.typ \in {"Lib", "Exe", "Test"}
    /\ linkArgv[1] = LinkFlagsGathered \o KindFlags \o << <<"-fvisibility=hidden">> >>

\* C18 witness: a library of a C++ project with CXX set is linked by g++
\* after g++ compiled two units, with package and user link flags.
C18_Witness ==
  /\ linkArgv # None
  /\ artifact.typ = "Lib"
  /\ spawnedCC = {<<"g++">>}
  /\ linker.cc = <<"g++">>
  /\ Len(regs) >= 2
  /\ Len(lflags0) >= 2
  /\ linkArgv[1][Len(linkArgv[1]) - 3] = <<"-shared">>

\* a step in which a registration (cobject or build) returns
RegistrationReturns == Len(regs') = Len(regs) + 1

\* every Step's arguments begin with the compile flags of Make
StepsShareCflags ==
  \A k \in StepIds :
    /\ Len(steps[k].args) >= Len(cflags)
    /\ SubSeq(steps[k].args, 1, Len(cflags)) = cflags

\* C19: a registration that returns leaves the compile flags, the compiler
\* executable and the artifact as they were, keeps every Step of the queue and
\* appends at most one, and keeps every link flag and puts exactly one in
\* front of them; and every Step's arguments begin with the same compile
\* flags.
C19_RegistrationFrame ==
  [][/\ RegistrationReturns =>
          /\ cflags' = cflags /\ cc' = cc /\ artifact' = artifact
          /\ Len(steps') \in {Len(steps), Len(steps) + 1}
          /\ SubSeq(steps', 1, Len(steps)) = steps
          /\ Len(lflags') = Len(lflags) + 1
          /\ Tail(lflags') = lflags
          /\ lflags'[1] = regs'[Len(regs')].outp
     /\ StepsShareCflags']_vars

\* C19 witness: three registrations have returned in a project with package
\* and user flags; three Steps are queued and the link flags hold the three
\* objects before the flags of Make::new.
C19_Witness ==
  /\ pc = "reg"
  /\ Len(regs) = 3
  /\ Len(steps) = 3
  /\ Len(lflags0) >= 2
  /\ Len(lflags) = Len(lflags0) + 3
  /\ cflags # <<>>

====
